---- MODULE Spec2Model ----
(***************************************************************************)
(* The static content pipeline of marioph.com: the blog collection, the    *)
(* routes derived from it (getStaticPaths), the blog index page, the       *)
(* "latest posts" teaser of the home page and the two revisions of the     *)
(* RSS endpoint.                                                           *)
(*                                                                         *)
(* A build loads the collection once (Init), derives the routes (the two   *)
(* getStaticPaths, in any order) and then renders the pages and endpoints, *)
(* each once, in any order.  Every handler calls getCollection("blog") and *)
(* works on the array it gets back.                                        *)
(*                                                                         *)
(* Spec        the listing pipeline: routes, index page, teaser, feeds     *)
(* SpecShared  the same handlers when getCollection hands out the array it *)
(*             caches, and route generation may run a second time          *)
(* SpecImages  the preview-image endpoints, with font files that may be    *)
(*             missing; an endpoint may be requested a second time         *)
(* SpecBuild   a whole build: every handler once, then completion          *)
(* SpecLoad    the loading of the documents of the content store           *)
(***************************************************************************)
EXTENDS Integers, Sequences, FiniteSets, TLC

VARIABLES
    store,              \* the collection array the framework holds
    done,               \* the handlers that have run in this build
    postPaths,          \* result of getStaticPaths of pages/blog/[slug].astro
    ogPaths,            \* result of getStaticPaths of pages/blog/[slug]/og.png.ts
    indexListing,       \* the <li> items of pages/blog/index.astro
    indexMeta,          \* the metadata the layout writes into the index page
    latestPosts,        \* the <li> items of the home page's blog teaser
    feedItems,          \* items of the RSS endpoint (revision with the draft filter)
    feedItemsUnfiltered,\* items of the RSS endpoint (revision without the filter)
    pending,            \* documents of the content store not yet loaded
    loaded,             \* the collection as the loader returned it
    aliased,            \* getCollection returns the array it caches, not a copy
    regenerated,        \* route generation has run a second time
    fonts,              \* the font files present under ./fonts
    status,             \* "loading", "running", "complete" or "aborted"
    images,             \* the preview images: per-post by slug, and "home"
    rerendered,         \* the preview images requested a second time
    pages               \* the post pages, by slug

\* the outputs of the listing handlers
listingVars == <<indexListing, indexMeta, latestPosts, feedItems,
                 feedItemsUnfiltered>>

\* the outputs of the per-entry handlers
renderVars == <<images, rerendered, pages>>

\* what no handler writes
envVars == <<pending, loaded, aliased, fonts>>

vars == <<store, done, postPaths, ogPaths, regenerated, status, listingVars,
          renderVars, envVars>>

-----------------------------------------------------------------------------
(* Bounds of the model *)

\* the largest number of documents in the content store
MaxEntries == 4

\* file names (minus extension) of the documents, in the two orders in which
\* the loader may return them
SlugOrders == { <<"a", "b", "c", "d", "e">>, <<"e", "d", "c", "b", "a">> }

Slugs == {"a", "b", "c", "d", "e"}

\* publication dates as days since 1970-01-01 (Date.valueOf() scaled to days):
\* 2023-01-01, 2024-01-01, 2024-06-01
Dates == {19358, 19723, 19875}

-----------------------------------------------------------------------------
(* Content entries *)

\* front matter and body of the document with a given file name; title,
\* description, image and body are fixed per document, pubDate and draft vary
TitleOf(slug) == <<"title", slug>>

DescriptionOf(slug) == <<"description", slug>>

\* "none": the front matter has no image field
ImageOf(slug) == IF slug \in {"b", "d"} THEN <<slug, "webp">> ELSE "none"

\* the markdown source as a sequence of block tokens
\* ("fence": a code fence with a language the highlighter knows;
\* "fence_unknown": one with a language it does not know; "fence_bad_meta":
\* one with a line-highlight annotation that is no range)
BodyOf(slug) ==
    CASE slug = "a" -> <<"heading", "paragraph", "heading_two", "fence_unknown">>
      [] slug = "b" -> <<"paragraph", "image", "fence_bad_meta">>
      [] slug = "c" -> <<"paragraph", "html_script", "fence">>
      [] OTHER      -> <<"paragraph">>

Entry(slug, date, draft) ==
    [ slug        |-> slug,
      title       |-> TitleOf(slug),
      description |-> DescriptionOf(slug),
      pubDate     |-> date,
      draft       |-> draft,
      image       |-> ImageOf(slug),
      body        |-> BodyOf(slug) ]

Min(a, b) == IF a < b THEN a ELSE b

\* a collection of n documents: the first n file names of a loader order,
\* each with its date and its draft flag
StoreOf(order, n, dates, drafts) ==
    [i \in 1..n |-> Entry(order[i], dates[i], drafts[i])]

\* await getCollection("blog"): the entries the framework holds, in its order
GetCollection == store

\* The collection array the framework holds after a handler has sorted, in
\* place, the array it got from getCollection.  Whether that array is the
\* framework's own or a copy of it depends on the framework's version: a
\* handler that sorts its own copy leaves the collection as it was.
CollectionAfter(array) == IF aliased THEN array ELSE store

\* the entry with a given slug (slugs are unique in the store)
EntryOfSlug(slug) ==
    store[CHOOSE i \in 1..Len(store) : store[i].slug = slug]

LoadedSlugs == {store[i].slug : i \in 1..Len(store)}

-----------------------------------------------------------------------------
(* Array.prototype.sort *)

\* The order of the two arguments in which an engine calls the comparator is
\* not fixed by the language: to decide whether a later element y goes before
\* an earlier element x an engine evaluates either comparefn(y, x) < 0
\* ("later_first") or comparefn(x, y) > 0 ("earlier_first").
ArgOrders == {"later_first", "earlier_first"}

\* a comparator applied to the elements of an array: the value cmp[a, b] for
\* every pair of elements
Elements(s) == {s[i] : i \in 1..Len(s)}

\* stable insertion of y into the sorted prefix: y passes the trailing elements
\* the comparator puts after it
InsertSorted(sorted, y, cmp, argOrder) ==
    LET n == Len(sorted)
        GoesBefore(x) == IF argOrder = "later_first"
                         THEN cmp[y, x] < 0
                         ELSE cmp[x, y] > 0
        k == CHOOSE j \in 0..n :
                 /\ \A i \in (j + 1)..n : GoesBefore(sorted[i])
                 /\ (j = 0 \/ ~GoesBefore(sorted[j]))
    IN  SubSeq(sorted, 1, k) \o <<y>> \o SubSeq(sorted, k + 1, n)

\* s.sort(comparefn), with cmp[a, b] the value of comparefn(a, b)
Sort(s, cmp, argOrder) ==
    LET f[i \in 0..Len(s)] ==
            IF i = 0 THEN <<>>
            ELSE InsertSorted(f[i - 1], s[i], cmp, argOrder)
    IN  f[Len(s)]

\* Array.prototype.slice(from, to) with 0 <= from <= to
Slice(s, from, to) == SubSeq(s, from + 1, Min(to, Len(s)))

-----------------------------------------------------------------------------
(* Route generation *)

\* paths are sequences of segments: /blog/{slug} is <<"blog", slug>>
PostPagePath(slug) == <<"blog", slug>>

PreviewImagePath(slug) == <<"blog", slug, "og.png">>

IndexPagePath == <<"blog">>

FeedDocumentPath == <<"rss.xml">>

\* faulty variant: drafts get no post page
PostStaticPathsSkippingDrafts(posts) ==
    LET kept == SelectSeq(posts, LAMBDA post : ~post.draft)
    IN  [i \in 1..Len(kept) |->
            [params |-> [slug |-> kept[i].slug], props |-> kept[i]]]

\* faulty variant: paths only for the entries that have none yet
PostStaticPathsOnlyNew(posts) ==
    LET kept == SelectSeq(posts,
                          LAMBDA post :
                              \A i \in 1..Len(postPaths) :
                                  postPaths[i].params.slug # post.slug)
    IN  [i \in 1..Len(kept) |->
            [params |-> [slug |-> kept[i].slug], props |-> kept[i]]]

\* faulty variant: the path is made of the publication date
PostStaticPathsByDate(posts) ==
    [i \in 1..Len(posts) |->
        [params |-> [slug |-> posts[i].pubDate], props |-> posts[i]]]

\* pages/blog/[slug].astro: one path per entry of the collection
PostStaticPathsOf(posts) ==
    [i \in 1..Len(posts) |->
        [params |-> [slug |-> posts[i].slug], props |-> posts[i]]]

\* faulty variant: a preview image only for entries without a static image
OgStaticPathsWithoutImage(blogPosts) ==
    LET kept == SelectSeq(blogPosts, LAMBDA post : post.image = "none")
    IN  [i \in 1..Len(kept) |->
            [params |-> [slug |-> kept[i].slug], props |-> [post |-> kept[i]]]]

\* pages/blog/[slug]/og.png.ts: one path per entry of the collection
OgStaticPathsOf(blogPosts) ==
    [i \in 1..Len(blogPosts) |->
        [params |-> [slug |-> blogPosts[i].slug],
         props  |-> [post |-> blogPosts[i]]]]

\* the routes that exist because a page file exists
StaticRoutes ==
    { [kind |-> "index-page",    path |-> IndexPagePath],
      [kind |-> "feed-document", path |-> FeedDocumentPath] }

\* the routes of the build so far
Routes ==
    StaticRoutes
    \cup { [kind |-> "post-page", path |-> PostPagePath(postPaths[i].params.slug)] :
             i \in 1..Len(postPaths) }
    \cup { [kind |-> "post-preview-image",
            path |-> PreviewImagePath(ogPaths[i].params.slug)] :
             i \in 1..Len(ogPaths) }

PostGetStaticPaths ==
    /\ status = "running"
    /\ "postPaths" \notin done
    /\ postPaths' = PostStaticPathsOf(GetCollection)
    /\ done' = done \cup {"postPaths"}
    /\ UNCHANGED <<store, ogPaths, regenerated, status, listingVars,
                   renderVars, envVars>>

OgGetStaticPaths ==
    /\ status = "running"
    /\ "ogPaths" \notin done
    /\ ogPaths' = OgStaticPathsOf(GetCollection)
    /\ done' = done \cup {"ogPaths"}
    /\ UNCHANGED <<store, postPaths, regenerated, status, listingVars,
                   renderVars, envVars>>

\* the build derives the routes before it renders
RoutesDerived == {"postPaths", "ogPaths"} \subseteq done

-----------------------------------------------------------------------------
(* Link targets written by the templates *)

\* href={`/blog/${post.slug}`}: a site-absolute link
AbsoluteLink(path) == [absolute |-> TRUE, path |-> path]

\* href={`blog/${post.slug}`}: a link relative to the page that holds it
RelativeLink(path) == [absolute |-> FALSE, path |-> path]

\* the path the home page is served at
HomePagePath == <<>>

\* the path a link leads to from the page at path base: a relative link
\* replaces the last segment of the page's path
Resolve(link, base) ==
    IF link.absolute
    THEN link.path
    ELSE (IF base = <<>> THEN <<>> ELSE SubSeq(base, 1, Len(base) - 1)) \o link.path

-----------------------------------------------------------------------------
(* The page shell: layout/root-layout.astro *)

\* a prop or a front-matter field that is written, or left out
Given(value) == [given |-> TRUE, value |-> value]

\* (empty: what stands in the place of the value)
Absent(empty) == [given |-> FALSE, value |-> empty]

\* faulty variant: the image prop is not read, every page shows the default
RootLayoutDefaultOnly(title, description, image) ==
    [ title       |-> title,
      description |-> description,
      image       |-> AbsoluteLink(<<"og.png">>) ]

\* const { title, description, image = "/og.png" } = Astro.props; the image
\* goes into og:image and twitter:image
RootLayout(title, description, image) ==
    [ title       |-> title,
      description |-> description,
      image       |-> IF image.given THEN image.value
                      ELSE AbsoluteLink(<<"og.png">>) ]

\* the metadata of a page that is not rendered yet
NoMeta == [title |-> "", description |-> "", image |-> AbsoluteLink(<<>>)]

-----------------------------------------------------------------------------
(* Blog index page: pages/blog/index.astro *)

\* faulty variant: oldest first
IndexCompareAscending(a, b) == a.pubDate - b.pubDate

\* (a, b) => b.data.pubDate.valueOf() - a.data.pubDate.valueOf()
IndexCompare(a, b) == b.pubDate - a.pubDate

\* const blogPosts = (await getCollection('blog')).sort(...)
IndexBlogPosts(collection, argOrder) ==
    Sort(collection,
         [a \in Elements(collection), b \in Elements(collection) |-> IndexCompare(a, b)],
         argOrder)

\* faulty variant: the index links to /posts/{slug}
IndexItemUnderPosts(post) ==
    [ href        |-> AbsoluteLink(<<"posts", post.slug>>),
      title       |-> post.title,
      description |-> post.description,
      date        |-> post.pubDate ]

\* one <li> per post: link, title, description, date
IndexItem(post) ==
    [ href        |-> AbsoluteLink(<<"blog", post.slug>>),
      title       |-> post.title,
      description |-> post.description,
      date        |-> post.pubDate ]

\* <RootLayout title="blog" description="..."> without an image
IndexPageMeta ==
    RootLayout("blog", "sometimes I write about stuff I find interesting.",
               Absent(AbsoluteLink(<<>>)))

\* blogPosts.map((post) => <li>...</li>)
IndexItems(blogPosts) == [i \in 1..Len(blogPosts) |-> IndexItem(blogPosts[i])]

\* faulty variant: the page reads its first post and throws on an empty collection
BlogIndexPageNeedingPosts ==
    /\ status = "running"
    /\ RoutesDerived
    /\ "index" \notin done
    /\ Len(GetCollection) > 0
    /\ \E argOrder \in ArgOrders :
         LET blogPosts == IndexBlogPosts(GetCollection, argOrder)
         IN  /\ indexListing' = IndexItems(blogPosts)
             /\ indexMeta' = IndexPageMeta
             /\ store' = CollectionAfter(blogPosts)
    /\ done' = done \cup {"index"}
    /\ UNCHANGED <<postPaths, ogPaths, latestPosts, feedItems,
                   feedItemsUnfiltered, regenerated, status, renderVars,
                   envVars>>

BlogIndexPage ==
    /\ status = "running"
    /\ RoutesDerived
    /\ "index" \notin done
    /\ \E argOrder \in ArgOrders :
         LET blogPosts == IndexBlogPosts(GetCollection, argOrder)
         IN  /\ indexListing' = IndexItems(blogPosts)
             /\ indexMeta' = IndexPageMeta
             /\ store' = CollectionAfter(blogPosts)
    /\ done' = done \cup {"index"}
    /\ UNCHANGED <<postPaths, ogPaths, latestPosts, feedItems,
                   feedItemsUnfiltered, regenerated, status, renderVars,
                   envVars>>

-----------------------------------------------------------------------------
(* Home page teaser: the "Blog" section listing the latest posts *)

\* posts.slice(0, 3)
LatestCount == 3

\* (a, b) => b.data.pubDate.valueOf() - a.data.pubDate.valueOf()
TeaserCompare(a, b) == b.pubDate - a.pubDate

\* const posts = (await getCollection("blog")).sort(...)
TeaserPosts(collection, argOrder) ==
    Sort(collection,
         [a \in Elements(collection), b \in Elements(collection) |->
              TeaserCompare(a, b)],
         argOrder)

\* const latestPosts = posts.slice(0, 3)
TeaserLatestPosts(collection, argOrder) ==
    Slice(TeaserPosts(collection, argOrder), 0, LatestCount)

\* faulty variant: splice(0, 3) takes the latest posts out of the array
TeaserPostsAfterSplice(posts) == SubSeq(posts, LatestCount + 1, Len(posts))

\* the array posts after posts.slice(0, 3): slice copies, posts is as it was
TeaserPostsAfterSlice(posts) == posts

\* one <li> per post: link, title, date
TeaserItem(post) ==
    [ href  |-> RelativeLink(<<"blog", post.slug>>),
      title |-> post.title,
      date  |-> post.pubDate ]

\* latestPosts.map((post) => <li>...</li>)
TeaserItems(posts) == [i \in 1..Len(posts) |-> TeaserItem(posts[i])]

BlogTeaser ==
    /\ status = "running"
    /\ RoutesDerived
    /\ "teaser" \notin done
    /\ \E argOrder \in ArgOrders :
         /\ latestPosts' = TeaserItems(TeaserLatestPosts(GetCollection, argOrder))
         /\ store' = CollectionAfter(
                         TeaserPostsAfterSlice(TeaserPosts(GetCollection, argOrder)))
    /\ done' = done \cup {"teaser"}
    /\ UNCHANGED <<postPaths, ogPaths, indexListing, indexMeta, feedItems,
                   feedItemsUnfiltered, regenerated, status, renderVars,
                   envVars>>

-----------------------------------------------------------------------------
(* RSS endpoint: markdown rendering and sanitizing of the item content *)

\* new MarkdownIt().render(body): one HTML element per block token.  With the
\* default options raw HTML in the source is escaped to text; an image becomes
\* an <img> element.
ParserRenderToken(token) ==
    CASE token = "heading"     -> "h2"
      [] token = "heading_two" -> "h2"
      [] token = "paragraph"   -> "p"
      [] token = "image"       -> "img"
      [] token = "fence"       -> "pre"
      [] token = "fence_unknown"  -> "pre"
      [] token = "fence_bad_meta" -> "pre"
      [] token = "html_script" -> "escaped_text"

ParserRender(body) == [i \in 1..Len(body) |-> ParserRenderToken(body[i])]

\* the elements sanitize-html keeps with its default options (no img, no
\* script, no style)
SanitizerAllowed == {"h2", "p", "pre", "escaped_text"}

\* sanitizeHtml(html): drops every element that is not allowed
SanitizeHtml(html) == SelectSeq(html, LAMBDA el : el \in SanitizerAllowed)

\* faulty variant: the rendered markdown goes into the feed as it is
FeedContentUnsanitized(post) == ParserRender(post.body)

\* content: sanitizeHtml(parser.render(post.body))
FeedContent(post) == SanitizeHtml(ParserRender(post.body))

\* the object handed to rss() for one post
FeedItem(post) ==
    [ title       |-> post.title,
      pubDate     |-> post.pubDate,
      description |-> post.description,
      link        |-> AbsoluteLink(<<"blog", post.slug>>),
      content     |-> FeedContent(post) ]

\* items: blogPosts.map((post) => ({...}))
FeedItems(posts) == [i \in 1..Len(posts) |-> FeedItem(posts[i])]

-----------------------------------------------------------------------------
(* RSS endpoint, revision with the draft filter *)

\* .filter((post) => !post.data.draft)
FeedKeeps(post) == ~post.draft

\* (a, b) => b.data.pubDate.valueOf() - a.data.pubDate.valueOf()
FeedCompare(a, b) == b.pubDate - a.pubDate

FeedBlogPosts(collection, argOrder) ==
    LET kept == SelectSeq(collection, FeedKeeps)
    IN  Sort(kept,
             [a \in Elements(kept), b \in Elements(kept) |-> FeedCompare(a, b)],
             argOrder)

FeedGET ==
    /\ status = "running"
    /\ RoutesDerived
    /\ "feed" \notin done
    /\ \E argOrder \in ArgOrders :
         feedItems' = FeedItems(FeedBlogPosts(GetCollection, argOrder))
    /\ done' = done \cup {"feed"}
    /\ UNCHANGED <<store, postPaths, ogPaths, indexListing, indexMeta, latestPosts,
                   feedItemsUnfiltered, regenerated, status, renderVars,
                   envVars>>

-----------------------------------------------------------------------------
(* RSS endpoint, revision without the draft filter *)

\* (a, b) => { aDate = new Date(a.data.pubDate); bDate = new Date(b.data.pubDate);
\*             return aDate > bDate ? -1 : 1 }
FeedUnfilteredCompare(a, b) == IF a.pubDate > b.pubDate THEN -1 ELSE 1

\* const sortedPosts = blogPosts.sort(...)
FeedSortedPosts(collection, argOrder) ==
    Sort(collection,
         [a \in Elements(collection), b \in Elements(collection) |->
              FeedUnfilteredCompare(a, b)],
         argOrder)

FeedUnfilteredGET ==
    /\ status = "running"
    /\ RoutesDerived
    /\ "feedUnfiltered" \notin done
    /\ \E argOrder \in ArgOrders :
         LET sortedPosts == FeedSortedPosts(GetCollection, argOrder)
         IN  /\ feedItemsUnfiltered' = FeedItems(sortedPosts)
             /\ store' = CollectionAfter(sortedPosts)
    /\ done' = done \cup {"feedUnfiltered"}
    /\ UNCHANGED <<postPaths, ogPaths, indexListing, indexMeta, latestPosts, feedItems,
                   regenerated, status, renderVars, envVars>>

-----------------------------------------------------------------------------
(* Dates as text *)

MonthsShort ==
    <<"Jan", "Feb", "Mar", "Apr", "May", "Jun",
      "Jul", "Aug", "Sep", "Oct", "Nov", "Dec">>

\* year, month and day of a day number (days since 1970-01-01), in the
\* proleptic Gregorian calendar
CivilFromDays(days) ==
    LET z   == days + 719468
        era == z \div 146097
        doe == z - era * 146097
        yoe == (doe - doe \div 1460 + doe \div 36524 - doe \div 146096) \div 365
        doy == doe - (365 * yoe + yoe \div 4 - yoe \div 100)
        mp  == (5 * doy + 2) \div 153
        m   == IF mp < 10 THEN mp + 3 ELSE mp - 9
    IN  [ year  |-> yoe + era * 400 + (IF m <= 2 THEN 1 ELSE 0),
          month |-> m,
          day   |-> doy - (153 * mp + 2) \div 5 + 1 ]

\* pubDate.toLocaleDateString('en-us', {year: 'numeric', month: 'short',
\* day: 'numeric'}): "Jan 1, 2024" is <<"Jan", 1, 2024>>
ToLocaleDateString(date) ==
    LET civil == CivilFromDays(date)
    IN  <<MonthsShort[civil.month], civil.day, civil.year>>

-----------------------------------------------------------------------------
(* Preview images: pages/blog/[slug]/og.png.ts and the home page's og.png *)

FontBoldFile == "GeistMono-Bold.ttf"

FontRegularFile == "GeistMono-Regular.ttf"

FontFiles == {FontBoldFile, FontRegularFile}

\* the images of the site: one per slug, and the home page's
ImageKeys == Slugs \cup {"home"}

\* fs.readFileSync(path.resolve('./fonts/' + file)): the bytes of the file, or
\* an exception when the file does not exist
ReadFileSync(file) ==
    IF file \in fonts
    THEN [threw |-> FALSE, buffer |-> <<"bytes of", file>>]
    ELSE [threw |-> TRUE,  buffer |-> <<>>]

\* width and height of every preview image
ImageWidth == 1200

ImageHeight == 600

\* faulty variant: the height that link previews commonly use
PostImageOptionsTaller(bold, regular) ==
    [ width  |-> ImageWidth,
      height |-> 630,
      fonts  |-> << [name |-> "Geist Mono Bold", data |-> bold, style |-> "normal"],
                    [name |-> "Geist Mono Regular", data |-> regular,
                     style |-> "normal"] >> ]

\* the options of new ImageResponse(html, {...}) of the per-post endpoint
PostImageOptions(bold, regular) ==
    [ width  |-> ImageWidth,
      height |-> ImageHeight,
      fonts  |-> << [name |-> "Geist Mono Bold", data |-> bold, style |-> "normal"],
                    [name |-> "Geist Mono Regular", data |-> regular,
                     style |-> "normal"] >> ]

\* the options of new ImageResponse(html, {...}) of the home endpoint
HomeImageOptions(bold, regular) ==
    [ width  |-> ImageWidth,
      height |-> ImageHeight,
      fonts  |-> << [name |-> "Geist Mono Bold", data |-> bold, style |-> "normal"],
                    [name |-> "Geist Mono Regular", data |-> regular,
                     style |-> "normal"] >> ]

\* faulty variant: a counter of the module numbers the images as they are
\* rendered
PostImageElementNumbered(post) ==
    [ type       |-> "div",
      fontFamily |-> "Geist Mono Regular",
      children   |->
        << [ type     |-> "div",
             children |->
               << [ type       |-> "div",
                    fontFamily |-> "Geist Mono Bold",
                    children   |->
                      << "# ", post.title,
                         Cardinality({k \in ImageKeys :
                                         images[k].state = "rendered"}) >> ],
                  [ type     |-> "div",
                    children |-> ToLocaleDateString(post.pubDate) ] >> ],
           [ type |-> "div", children |-> <<"marioph.com">> ] >> ]

\* faulty variant: the image also shows the slug
PostImageElementWithSlug(post) ==
    [ type       |-> "div",
      fontFamily |-> "Geist Mono Regular",
      children   |->
        << [ type     |-> "div",
             children |->
               << [ type       |-> "div",
                    fontFamily |-> "Geist Mono Bold",
                    children   |-> <<"# ", post.title>> ],
                  [ type     |-> "div",
                    children |-> ToLocaleDateString(post.pubDate) ] >> ],
           [ type |-> "div", children |-> <<"marioph.com", post.slug>> ] >> ]

\* the element tree of the per-post image: the title after "# " in the bold
\* font, the formatted date, the site's name
PostImageElement(post) ==
    [ type       |-> "div",
      fontFamily |-> "Geist Mono Regular",
      children   |->
        << [ type     |-> "div",
             children |->
               << [ type       |-> "div",
                    fontFamily |-> "Geist Mono Bold",
                    children   |-> <<"# ", post.title>> ],
                  [ type     |-> "div",
                    children |-> ToLocaleDateString(post.pubDate) ] >> ],
           [ type |-> "div", children |-> <<"marioph.com">> ] >> ]

\* the element tree of the home image: a fixed greeting and the site's name
HomeImageElement ==
    [ type       |-> "div",
      fontFamily |-> "Geist Mono Regular",
      children   |->
        << [ type     |-> "div",
             children |-> <<"hi there, i'm mario.">> ],
           [ type |-> "div", children |-> <<"marioph.com">> ] >> ]

NotRendered == [state |-> "pending"]

\* faulty variant: a missing font is caught and the endpoint answers without
\* an image
OgGETResultSkipping(post) ==
    LET GeistMonoBold    == ReadFileSync(FontBoldFile)
        GeistMonoRegular == ReadFileSync(FontRegularFile)
    IN  IF GeistMonoBold.threw \/ GeistMonoRegular.threw
        THEN [state |-> "skipped"]
        ELSE [ state   |-> "rendered",
               element |-> PostImageElement(post),
               options |-> PostImageOptions(GeistMonoBold.buffer,
                                            GeistMonoRegular.buffer) ]

\* GET({ props }) of og.png.ts: reads the two fonts, then answers with the
\* image request; an exception of a read leaves the handler
OgGETResult(post) ==
    LET GeistMonoBold    == ReadFileSync(FontBoldFile)
        GeistMonoRegular == ReadFileSync(FontRegularFile)
    IN  IF GeistMonoBold.threw \/ GeistMonoRegular.threw
        THEN [state |-> "threw"]
        ELSE [ state   |-> "rendered",
               element |-> PostImageElement(post),
               options |-> PostImageOptions(GeistMonoBold.buffer,
                                            GeistMonoRegular.buffer) ]

\* faulty variant: a missing font is caught and the endpoint answers without
\* an image
HomeOgGETResultSkipping ==
    LET GeistMonoBold    == ReadFileSync(FontBoldFile)
        GeistMonoRegular == ReadFileSync(FontRegularFile)
    IN  IF GeistMonoBold.threw \/ GeistMonoRegular.threw
        THEN [state |-> "skipped"]
        ELSE [ state   |-> "rendered",
               element |-> HomeImageElement,
               options |-> HomeImageOptions(GeistMonoBold.buffer,
                                            GeistMonoRegular.buffer) ]

\* GET() of the home page's og.png
HomeOgGETResult ==
    LET GeistMonoBold    == ReadFileSync(FontBoldFile)
        GeistMonoRegular == ReadFileSync(FontRegularFile)
    IN  IF GeistMonoBold.threw \/ GeistMonoRegular.threw
        THEN [state |-> "threw"]
        ELSE [ state   |-> "rendered",
               element |-> HomeImageElement,
               options |-> HomeImageOptions(GeistMonoBold.buffer,
                                            GeistMonoRegular.buffer) ]

\* the props of the path that getStaticPaths made for a slug
OgPropsOf(slug) ==
    ogPaths[CHOOSE i \in 1..Len(ogPaths) : ogPaths[i].params.slug = slug].props

OgSlugs == {ogPaths[i].params.slug : i \in 1..Len(ogPaths)}

\* an exception that leaves an endpoint or a page ends the build
OgGET(slug) ==
    /\ status = "running"
    /\ "ogPaths" \in done
    /\ slug \in OgSlugs
    /\ images[slug].state = "pending"
    /\ LET response == OgGETResult(OgPropsOf(slug).post)
       IN  IF response.state = "threw"
           THEN /\ status' = "aborted"
                /\ UNCHANGED images
           ELSE /\ images' = [images EXCEPT ![slug] = response]
                /\ UNCHANGED status
    /\ UNCHANGED <<store, done, postPaths, ogPaths, regenerated, listingVars,
                   rerendered, pages, envVars>>

HomeOgGET ==
    /\ status = "running"
    /\ images["home"].state = "pending"
    /\ LET response == HomeOgGETResult
       IN  IF response.state = "threw"
           THEN /\ status' = "aborted"
                /\ UNCHANGED images
           ELSE /\ images' = [images EXCEPT !["home"] = response]
                /\ UNCHANGED status
    /\ UNCHANGED <<store, done, postPaths, ogPaths, regenerated, listingVars,
                   rerendered, pages, envVars>>

\* the endpoint of an image that exists is requested once more
OgGETSecondRequest(slug) ==
    /\ status = "running"
    /\ slug \in OgSlugs
    /\ images[slug].state = "rendered"
    /\ slug \notin rerendered
    /\ LET response == OgGETResult(OgPropsOf(slug).post)
       IN  IF response.state = "threw"
           THEN /\ status' = "aborted"
                /\ UNCHANGED images
           ELSE /\ images' = [images EXCEPT ![slug] = response]
                /\ UNCHANGED status
    /\ rerendered' = rerendered \cup {slug}
    /\ UNCHANGED <<store, done, postPaths, ogPaths, regenerated, listingVars,
                   pages, envVars>>

HomeOgGETSecondRequest ==
    /\ status = "running"
    /\ images["home"].state = "rendered"
    /\ "home" \notin rerendered
    /\ LET response == HomeOgGETResult
       IN  IF response.state = "threw"
           THEN /\ status' = "aborted"
                /\ UNCHANGED images
           ELSE /\ images' = [images EXCEPT !["home"] = response]
                /\ UNCHANGED status
    /\ rerendered' = rerendered \cup {"home"}
    /\ UNCHANGED <<store, done, postPaths, ogPaths, regenerated, listingVars,
                   pages, envVars>>

-----------------------------------------------------------------------------
(* Post pages: pages/blog/[slug].astro in the layout of blog-post.astro *)

\* an element of the rendered body: its tag and, for code, whether its tokens
\* are coloured and whether it has highlighted lines
Element(tag, coloured, marked) ==
    [tag |-> tag, coloured |-> coloured, marked |-> marked]

\* faulty variant: a language the highlighter does not know is an error, and
\* so is an annotation that is no range
PrettyCodeStrict(token) ==
    CASE token = "fence" ->
            [threw |-> FALSE, element |-> Element("pre", TRUE, TRUE)]
      [] token = "fence_unknown" ->
            [threw |-> TRUE, element |-> Element("pre", FALSE, FALSE)]
      [] token = "fence_bad_meta" ->
            [threw |-> TRUE, element |-> Element("pre", FALSE, FALSE)]

\* rehypePrettyCode with { theme: 'one-dark-pro' } on one code fence: a
\* language that is not registered falls back to plain text, an annotation
\* that is no range marks no line
PrettyCode(token) ==
    CASE token = "fence" ->
            [threw |-> FALSE, element |-> Element("pre", TRUE, TRUE)]
      [] token = "fence_unknown" ->
            [threw |-> FALSE, element |-> Element("pre", FALSE, FALSE)]
      [] token = "fence_bad_meta" ->
            [threw |-> FALSE, element |-> Element("pre", TRUE, FALSE)]

CodeFences == {"fence", "fence_unknown", "fence_bad_meta"}

\* the MDX pipeline on one block token: syntaxHighlight is off, code fences
\* go through rehypePrettyCode
MdxRenderToken(token) ==
    IF token \in CodeFences
    THEN PrettyCode(token)
    ELSE [ threw   |-> FALSE,
           element |-> CASE token = "heading"     -> Element("h2", FALSE, FALSE)
                         [] token = "heading_two" -> Element("h2", FALSE, FALSE)
                         [] token = "paragraph"   -> Element("p", FALSE, FALSE)
                         [] token = "image"       -> Element("img", FALSE, FALSE)
                         [] token = "html_script" -> Element("script", FALSE, FALSE) ]

HeadingTokens == {"heading", "heading_two"}

\* the slug the renderer gives a heading: made of its text, one per heading
HeadingSlug(token) == <<"slug of", token>>

\* an entry of headings: the slug and the text of a heading
Heading(token) == [slug |-> HeadingSlug(token), text |-> <<"text of", token>>]

\* <a href={`#${heading.slug}`}>: a link to a place of the same page
FragmentLink(slug) == [fragment |-> slug]

\* faulty variant: the list is there also when it is empty
TableOfContentsAlways(headings) ==
    [ present |-> TRUE,
      links   |-> [i \in 1..Len(headings) |-> FragmentLink(headings[i].slug)] ]

\* headings.length > 0 && <ol>{headings.map((heading) => <li><a .../></li>)}</ol>
TableOfContents(headings) ==
    IF Len(headings) > 0
    THEN [ present |-> TRUE,
           links   |-> [i \in 1..Len(headings) |-> FragmentLink(headings[i].slug)] ]
    ELSE [ present |-> FALSE, links |-> <<>> ]

\* const { Content, headings } = await Astro.props.render()
EntryRender(post) ==
    LET rendered == [i \in 1..Len(post.body) |-> MdxRenderToken(post.body[i])]
    IN  IF \E i \in 1..Len(rendered) : rendered[i].threw
        THEN [threw |-> TRUE, Content |-> <<>>, headings |-> <<>>]
        ELSE [ threw    |-> FALSE,
               Content  |-> [i \in 1..Len(rendered) |-> rendered[i].element],
               headings |->
                   LET tokens == SelectSeq(post.body,
                                           LAMBDA token : token \in HeadingTokens)
                   IN  [i \in 1..Len(tokens) |-> Heading(tokens[i])] ]

\* faulty variant: the page shows the static image of the entry when it has one
BlogPostMetaStaticImage(post) ==
    RootLayout(post.title, post.description,
               IF post.image = "none"
               THEN Given(AbsoluteLink(<<"blog", post.slug, "og.png">>))
               ELSE Given(AbsoluteLink(<<"images", post.slug>>)))

\* blog-post.astro: <RootLayout title={title} description={description}
\* image={`/blog/${slug}/og.png`}>
BlogPostMeta(post) ==
    RootLayout(post.title, post.description,
               Given(AbsoluteLink(<<"blog", post.slug, "og.png">>)))

\* the page: the layout's metadata, the title and the date of the article,
\* the table of contents when there are headings, the content
PostPageResult(post) ==
    LET render == EntryRender(post)
    IN  IF render.threw
        THEN [state |-> "threw"]
        ELSE [ state   |-> "rendered",
               meta    |-> BlogPostMeta(post),
               title   |-> post.title,
               date    |-> post.pubDate,
               toc     |-> TableOfContents(render.headings),
               content |-> render.Content ]

PostPropsOf(slug) ==
    postPaths[CHOOSE i \in 1..Len(postPaths) : postPaths[i].params.slug = slug].props

PostSlugs == {postPaths[i].params.slug : i \in 1..Len(postPaths)}

PostPage(slug) ==
    /\ status = "running"
    /\ "postPaths" \in done
    /\ slug \in PostSlugs
    /\ pages[slug].state = "pending"
    /\ LET page == PostPageResult(PostPropsOf(slug))
       IN  IF page.state = "threw"
           THEN /\ status' = "aborted"
                /\ UNCHANGED pages
           ELSE /\ pages' = [pages EXCEPT ![slug] = page]
                /\ UNCHANGED status
    /\ UNCHANGED <<store, done, postPaths, ogPaths, regenerated, listingVars,
                   images, rerendered, envVars>>

-----------------------------------------------------------------------------
(* The build as a whole *)

\* every handler of the site has returned
AllHandlersReturned ==
    /\ {"postPaths", "ogPaths", "index", "teaser", "feed", "feedUnfiltered"}
          \subseteq done
    /\ \A slug \in PostSlugs : pages[slug].state # "pending"
    /\ \A slug \in OgSlugs : images[slug].state # "pending"
    /\ images["home"].state # "pending"

\* the build ends well when every handler has returned without an exception
BuildComplete ==
    /\ status = "running"
    /\ AllHandlersReturned
    /\ status' = "complete"
    /\ UNCHANGED <<store, done, postPaths, ogPaths, regenerated, listingVars,
                   renderVars, envVars>>

\* route generation runs a second time in the same build
RegenerateRoutes ==
    /\ status = "running"
    /\ RoutesDerived
    /\ ~regenerated
    /\ postPaths' = PostStaticPathsOf(GetCollection)
    /\ ogPaths' = OgStaticPathsOf(GetCollection)
    /\ regenerated' = TRUE
    /\ UNCHANGED <<store, done, status, listingVars, renderVars, envVars>>

-----------------------------------------------------------------------------
(* Loading the documents of the content store *)

\* the most documents in the content store of SpecLoad
MaxDocuments == 2

MonthNames ==
    <<"jan", "feb", "mar", "apr", "may", "jun",
      "jul", "aug", "sep", "oct", "nov", "dec">>

\* day number of a year, month and day
DaysFromCivil(year, month, day) ==
    LET y   == IF month <= 2 THEN year - 1 ELSE year
        era == y \div 400
        yoe == y - era * 400
        mp  == IF month > 2 THEN month - 3 ELSE month + 9
        doy == (153 * mp + 2) \div 5 + day - 1
        doe == yoe * 365 + yoe \div 4 - yoe \div 100 + doy
    IN  era * 146097 + doe - 719468

\* the date a text such as 'jan 1 2024' (<<"jan", 1, 2024>>) stands for
ParseDate(text) ==
    IF /\ Len(text) = 3
       /\ \E m \in 1..12 : MonthNames[m] = text[1]
    THEN [ valid |-> TRUE,
           value |-> DaysFromCivil(text[3],
                                   CHOOSE m \in 1..12 : MonthNames[m] = text[1],
                                   text[2]) ]
    ELSE [valid |-> FALSE, value |-> -1]

\* a document of the content store: its file name and its front matter
Document(slug, title, description, pubDate, draft) ==
    [ file        |-> slug,
      title       |-> title,
      description |-> description,
      pubDate     |-> pubDate,
      draft       |-> draft ]

\* what a document may say of its publication date: a date, a text that is
\* no date, nothing
PubDateFields == {Given(<<"jan", 1, 2024>>), Given(<<"soon">>), Absent(<<>>)}

DraftFields == {Given(TRUE), Given(FALSE), Absent(FALSE)}

\* the documents of a content store: the first n file names of a loader
\* order, each with or without its title and description, with its
\* publication date and its draft flag
DocumentsOf(order, n, titled, described, pubDates, drafts) ==
    [i \in 1..n |->
        Document(order[i],
                 IF titled[i] THEN Given(TitleOf(order[i])) ELSE Absent(<<>>),
                 IF described[i] THEN Given(DescriptionOf(order[i]))
                 ELSE Absent(<<>>),
                 pubDates[i],
                 drafts[i])]

\* faulty variant: a best-effort entry is made of whatever the front matter holds
ParseFrontMatterLenient(doc) ==
    LET date == IF doc.pubDate.given THEN ParseDate(doc.pubDate.value)
                ELSE [valid |-> FALSE, value |-> -1]
    IN  [ valid |-> TRUE,
          entry |-> [ slug        |-> doc.file,
                      title       |-> doc.title.value,
                      description |-> doc.description.value,
                      pubDate     |-> date.value,
                      draft       |-> IF doc.draft.given THEN doc.draft.value
                                      ELSE FALSE,
                      image       |-> ImageOf(doc.file),
                      body        |-> BodyOf(doc.file) ] ]

\* the schema on one document: title, description and a date-like pubDate are
\* required, draft is false when left out
ParseFrontMatter(doc) ==
    LET date == IF doc.pubDate.given THEN ParseDate(doc.pubDate.value)
                ELSE [valid |-> FALSE, value |-> -1]
    IN  IF doc.title.given /\ doc.description.given /\ date.valid
        THEN [ valid |-> TRUE,
               entry |-> Entry(doc.file, date.value,
                               IF doc.draft.given THEN doc.draft.value ELSE FALSE) ]
        ELSE [ valid |-> FALSE, entry |-> <<>> ]

\* the loader on the next document: an entry, or the end of the build
LoadEntry ==
    /\ status = "loading"
    /\ pending # <<>>
    /\ LET parsed == ParseFrontMatter(Head(pending))
       IN  IF parsed.valid
           THEN /\ store' = Append(store, parsed.entry)
                /\ loaded' = Append(loaded, parsed.entry)
                /\ pending' = Tail(pending)
                /\ UNCHANGED status
           ELSE /\ status' = "aborted"
                /\ UNCHANGED <<store, loaded, pending>>
    /\ UNCHANGED <<done, postPaths, ogPaths, regenerated, listingVars,
                   renderVars, aliased, fonts>>

\* every document is loaded: the build goes on to the routes
FinishLoad ==
    /\ status = "loading"
    /\ pending = <<>>
    /\ status' = "running"
    /\ UNCHANGED <<store, done, postPaths, ogPaths, regenerated, listingVars,
                   renderVars, envVars>>

-----------------------------------------------------------------------------
(* The specifications *)

\* the most entries in the builds of SpecShared, SpecImages and SpecBuild
MaxSmallEntries == 2

\* nothing has run yet
NothingRun ==
    /\ done = {}
    /\ postPaths = <<>>
    /\ ogPaths = <<>>
    /\ regenerated = FALSE
    /\ indexListing = <<>>
    /\ indexMeta = NoMeta
    /\ latestPosts = <<>>
    /\ feedItems = <<>>
    /\ feedItemsUnfiltered = <<>>
    /\ images = [k \in ImageKeys |-> NotRendered]
    /\ rerendered = {}
    /\ pages = [slug \in Slugs |-> NotRendered]

Init ==
    /\ \E order \in SlugOrders, n \in 0..Min(MaxEntries, Cardinality(Slugs)) :
          \E dates \in [1..n -> Dates], drafts \in [1..n -> BOOLEAN] :
              store = StoreOf(order, n, dates, drafts)
    /\ loaded = store
    /\ pending = <<>>
    /\ status = "running"
    /\ aliased = FALSE
    /\ fonts = FontFiles
    /\ NothingRun

Next ==
    \/ PostGetStaticPaths
    \/ OgGetStaticPaths
    \/ BlogIndexPage
    \/ BlogTeaser
    \/ FeedGET
    \/ FeedUnfilteredGET

Spec == Init /\ [][Next]_vars

\* the listing pipeline of a build in which getCollection may hand out the
\* array it caches
InitShared ==
    /\ \E order \in SlugOrders, n \in 0..MaxSmallEntries :
          \E dates \in [1..n -> Dates], drafts \in [1..n -> BOOLEAN] :
              store = StoreOf(order, n, dates, drafts)
    /\ loaded = store
    /\ pending = <<>>
    /\ status = "running"
    /\ aliased \in BOOLEAN
    /\ fonts = FontFiles
    /\ NothingRun

NextShared ==
    \/ PostGetStaticPaths
    \/ OgGetStaticPaths
    \/ RegenerateRoutes
    \/ BlogIndexPage
    \/ BlogTeaser
    \/ FeedGET
    \/ FeedUnfilteredGET

SpecShared == InitShared /\ [][NextShared]_vars

\* a collection in which documents may carry the same title: each has its
\* own title or that of the first document
StoreWithTitles(order, n, dates, drafts, sameTitle) ==
    [i \in 1..n |->
        [Entry(order[i], dates[i], drafts[i]) EXCEPT
            !.title = IF sameTitle[i] THEN TitleOf(order[1]) ELSE @]]

\* the preview images of a build whose font files may be missing
InitImages ==
    /\ \E order \in SlugOrders, n \in 0..MaxSmallEntries :
          \E dates \in [1..n -> Dates], drafts \in [1..n -> BOOLEAN],
             sameTitle \in [1..n -> BOOLEAN] :
              store = StoreWithTitles(order, n, dates, drafts, sameTitle)
    /\ loaded = store
    /\ pending = <<>>
    /\ status = "running"
    /\ aliased = FALSE
    /\ fonts \in SUBSET FontFiles
    /\ NothingRun

NextImages ==
    \/ OgGetStaticPaths
    \/ \E slug \in Slugs : OgGET(slug)
    \/ HomeOgGET
    \/ \E slug \in Slugs : OgGETSecondRequest(slug)
    \/ HomeOgGETSecondRequest

SpecImages == InitImages /\ [][NextImages]_vars

\* a whole build: the dates play no part in whether it completes
InitBuild ==
    /\ \E order \in SlugOrders, n \in 0..MaxSmallEntries :
          \E dates \in [1..n -> {19723}], drafts \in [1..n -> BOOLEAN] :
              store = StoreOf(order, n, dates, drafts)
    /\ loaded = store
    /\ pending = <<>>
    /\ status = "running"
    /\ aliased = FALSE
    /\ fonts \in SUBSET FontFiles
    /\ NothingRun

NextBuild ==
    \/ PostGetStaticPaths
    \/ OgGetStaticPaths
    \/ BlogIndexPage
    \/ BlogTeaser
    \/ FeedGET
    \/ FeedUnfilteredGET
    \/ \E slug \in Slugs : PostPage(slug)
    \/ \E slug \in Slugs : OgGET(slug)
    \/ HomeOgGET
    \/ BuildComplete

SpecBuild == InitBuild /\ [][NextBuild]_vars

\* the loader on a content store of up to MaxDocuments documents
InitLoad ==
    /\ \E order \in SlugOrders, n \in 0..MaxDocuments :
          \E titled \in [1..n -> BOOLEAN], described \in [1..n -> BOOLEAN],
             pubDates \in [1..n -> PubDateFields], drafts \in [1..n -> DraftFields] :
              pending = DocumentsOf(order, n, titled, described, pubDates, drafts)
    /\ store = <<>>
    /\ loaded = <<>>
    /\ status = "loading"
    /\ aliased = FALSE
    /\ fonts = FontFiles
    /\ NothingRun

NextLoad ==
    \/ LoadEntry
    \/ FinishLoad

SpecLoad == InitLoad /\ [][NextLoad]_vars

-----------------------------------------------------------------------------
(* What the outputs say about the entries *)

IndexSlugs == [i \in 1..Len(indexListing) |-> indexListing[i].href.path[2]]

TeaserSlugs == [i \in 1..Len(latestPosts) |-> latestPosts[i].href.path[2]]

FeedSlugs == [i \in 1..Len(feedItems) |-> feedItems[i].link.path[2]]

FeedUnfilteredSlugs ==
    [i \in 1..Len(feedItemsUnfiltered) |-> feedItemsUnfiltered[i].link.path[2]]

\* position of an entry in the order the loader returned
StorePos(slug) == CHOOSE i \in 1..Len(loaded) : loaded[i].slug = slug

NoDraftIn(slugs) == \A i \in 1..Len(slugs) : ~EntryOfSlug(slugs[i]).draft

\* later dates first
DateDescending(slugs) ==
    \A i, j \in 1..Len(slugs) :
        EntryOfSlug(slugs[i]).pubDate > EntryOfSlug(slugs[j]).pubDate => i < j

\* entries of equal date in the loader's order
StableOnTies(slugs) ==
    \A i, j \in 1..Len(slugs) :
        (i < j /\ EntryOfSlug(slugs[i]).pubDate = EntryOfSlug(slugs[j]).pubDate)
            => StorePos(slugs[i]) < StorePos(slugs[j])

SurvivingSlugs == {store[i].slug : i \in {j \in 1..Len(store) : ~store[j].draft}}

-----------------------------------------------------------------------------
(* C1 *)

\* C1: no entry with draft = true appears in the index listing or among the
\* feed items (of either revision of the RSS endpoint).
C1_NoDraftInListingOrFeed ==
    /\ NoDraftIn(IndexSlugs)
    /\ NoDraftIn(FeedSlugs)
    /\ NoDraftIn(FeedUnfilteredSlugs)

-----------------------------------------------------------------------------
(* C2 *)

\* C2: in the index listing and in the feed, an entry with a later pubDate
\* comes before every entry with an earlier pubDate, and the dates shown are
\* the entries' own.
C2_DateDescending ==
    /\ DateDescending(IndexSlugs)
    /\ DateDescending(FeedSlugs)
    /\ DateDescending(FeedUnfilteredSlugs)
    /\ \A i \in 1..Len(indexListing) :
           indexListing[i].date = EntryOfSlug(IndexSlugs[i]).pubDate
    /\ \A i \in 1..Len(feedItems) :
           feedItems[i].pubDate = EntryOfSlug(FeedSlugs[i]).pubDate

\* the sorts had something to do: the loader returned an older entry before a
\* newer one and all three listings were built
C2_Witness ==
    /\ {"index", "feed", "feedUnfiltered"} \subseteq done
    /\ \E i, j \in 1..Len(store) :
          /\ i < j
          /\ store[i].pubDate < store[j].pubDate
          /\ ~store[i].draft
          /\ ~store[j].draft
    /\ Len(feedItems) >= 2

-----------------------------------------------------------------------------
(* C3 *)

-----------------------------------------------------------------------------
(* C4 *)

-----------------------------------------------------------------------------
(* C5 *)

-----------------------------------------------------------------------------
(* C6 *)

\* C6: whatever the number of entries there is exactly one index-page route
\* and exactly one feed-document route; with no entries the index page and
\* the RSS endpoint can still run, and they produce an empty listing and an
\* empty item list.
C6_OneIndexOneFeed ==
    /\ Cardinality({r \in Routes : r.kind = "index-page"}) = 1
    /\ Cardinality({r \in Routes : r.kind = "feed-document"}) = 1
    /\ store = <<>> =>
         /\ (RoutesDerived /\ "index" \notin done) => ENABLED BlogIndexPage
         /\ (RoutesDerived /\ "feed" \notin done) => ENABLED FeedGET
         /\ (RoutesDerived /\ "feedUnfiltered" \notin done)
                => ENABLED FeedUnfilteredGET
         /\ "index" \in done => indexListing = <<>>
         /\ "feed" \in done => feedItems = <<>>
         /\ "feedUnfiltered" \in done => feedItemsUnfiltered = <<>>

\* a build of an empty store that ran every handler
C6_Witness ==
    /\ store = <<>>
    /\ {"postPaths", "ogPaths", "index", "teaser", "feed", "feedUnfiltered"}
          \subseteq done
    /\ Routes = StaticRoutes

-----------------------------------------------------------------------------
(* C7 *)

\* the store [a 2024-01-01, b 2024-06-01 draft, c 2023-01-01]
EndToEndStore ==
    /\ Len(store) = 3
    /\ store[1].slug = "a" /\ store[1].pubDate = 19723 /\ ~store[1].draft
    /\ store[2].slug = "b" /\ store[2].pubDate = 19875 /\ store[2].draft
    /\ store[3].slug = "c" /\ store[3].pubDate = 19358 /\ ~store[3].draft

\* C7: for that store the index listing is exactly [a, c] and the feed holds
\* exactly the two items a, c in that order.
C7_EndToEnd ==
    EndToEndStore =>
        /\ "index" \in done => IndexSlugs = <<"a", "c">>
        /\ "feed" \in done => FeedSlugs = <<"a", "c">>
        /\ "feedUnfiltered" \in done => FeedUnfilteredSlugs = <<"a", "c">>

-----------------------------------------------------------------------------
(* C8 *)

\* C8: the teaser is the first min(3, n) items of the index listing in the
\* same order, holds no draft entry and never more than 3 entries.
C8_TeaserIsHeadOfListing ==
    /\ Len(latestPosts) <= 3
    /\ NoDraftIn(TeaserSlugs)
    /\ {"index", "teaser"} \subseteq done =>
          TeaserSlugs = SubSeq(IndexSlugs, 1, Min(3, Len(IndexSlugs)))

-----------------------------------------------------------------------------
(* C9 *)

\* the feed item an entry should have
ExpectedFeedItem(e) ==
    [ title       |-> e.title,
      pubDate     |-> e.pubDate,
      description |-> e.description,
      link        |-> AbsoluteLink(PostPagePath(e.slug)),
      content     |-> SanitizeHtml(ParserRender(e.body)) ]

OneItemPerSurvivingEntry(items) ==
    /\ Len(items) = Cardinality(SurvivingSlugs)
    /\ \A slug \in SurvivingSlugs :
          \E i \in 1..Len(items) : items[i] = ExpectedFeedItem(EntryOfSlug(slug))

\* C9: the feed holds exactly one item per non-draft entry, carrying that
\* entry's title, pubDate, description and the link /blog/{slug}.
C9_FeedItemPerSurvivingEntry ==
    /\ "feed" \in done => OneItemPerSurvivingEntry(feedItems)
    /\ "feedUnfiltered" \in done => OneItemPerSurvivingEntry(feedItemsUnfiltered)

-----------------------------------------------------------------------------
(* C10 *)

SanitizedContent(items, slugs) ==
    \A i \in 1..Len(items) :
        /\ Elements(items[i].content) \subseteq SanitizerAllowed
        /\ items[i].content =
               SelectSeq(ParserRender(EntryOfSlug(slugs[i]).body),
                         LAMBDA el : el \in SanitizerAllowed)

\* C10: the content of every feed item is the sanitizer's output for the
\* rendered markdown body of its entry: it holds no element the sanitizer
\* drops.
C10_FeedContentSanitized ==
    /\ SanitizedContent(feedItems, FeedSlugs)
    /\ SanitizedContent(feedItemsUnfiltered, FeedUnfilteredSlugs)

\* both feeds hold an item whose rendered body had an element to drop
C10_Witness ==
    /\ \E i \in 1..Len(feedItems) :
          ParserRender(EntryOfSlug(FeedSlugs[i]).body) # feedItems[i].content
    /\ \E i \in 1..Len(feedItemsUnfiltered) :
          ParserRender(EntryOfSlug(FeedUnfilteredSlugs[i]).body)
              # feedItemsUnfiltered[i].content

-----------------------------------------------------------------------------
(* C11 *)

\* C11: once the routes are derived, no step changes the set of routes; in
\* particular a second run of route generation over the same entries, in
\* whatever order the collection then has them, yields the same set.
C11_RouteGenerationIdempotent == [][RoutesDerived => Routes' = Routes]_vars

\* route generation ran a second time, on a collection that a sort had
\* reordered in between
C11_Witness ==
    /\ regenerated
    /\ store # loaded
    /\ [i \in 1..Len(postPaths) |-> postPaths[i].props] = store
    /\ Cardinality(Routes) >= 4

-----------------------------------------------------------------------------
(* C12 *)

-----------------------------------------------------------------------------
(* C13 *)

\* C13: when a font file is missing no preview image, per-post or home, is
\* ever produced or skipped over: every request of an image endpoint ends the
\* build.
C13_MissingFontAborts ==
    fonts # FontFiles =>
        /\ \A k \in ImageKeys : images[k].state = "pending"
        /\ \A slug \in Slugs : ~ENABLED (OgGET(slug) /\ status' # "aborted")
        /\ ~ENABLED (HomeOgGET /\ status' # "aborted")

\* only the regular font is missing, a per-post image was there to request,
\* and the build is over
C13_Witness ==
    /\ fonts = {FontBoldFile}
    /\ Len(ogPaths) >= 1
    /\ status = "aborted"

-----------------------------------------------------------------------------
(* C14 *)

\* the output of a route exists
HasArtifact(route) ==
    CASE route.kind = "index-page"    -> "index" \in done
      [] route.kind = "feed-document" -> "feed" \in done \/ "feedUnfiltered" \in done
      [] route.kind = "post-page"     -> pages[route.path[2]].state = "rendered"
      [] route.kind = "post-preview-image" ->
             images[route.path[2]].state = "rendered"

\* some step of the build can be taken
CanStep ==
    \/ ENABLED PostGetStaticPaths
    \/ ENABLED OgGetStaticPaths
    \/ ENABLED BuildComplete
    \/ ENABLED HomeOgGET
    \/ \E slug \in Slugs : ENABLED PostPage(slug)
    \/ \E slug \in Slugs : ENABLED OgGET(slug)
    \/ ENABLED FeedGET
    \/ ENABLED BlogIndexPage
    \/ ENABLED BlogTeaser
    \/ ENABLED FeedUnfilteredGET

\* C14: a build that reports complete has an output for every route and for
\* the home image; a build that can take no further step is complete or
\* aborted.
C14_AllOrNothing ==
    /\ status = "complete" =>
          /\ \A route \in Routes : HasArtifact(route)
          /\ images["home"].state = "rendered"
    /\ status \in {"running", "complete", "aborted"}
    /\ status = "running" => CanStep

\* a build of two entries is complete
C14_Witness ==
    /\ status = "complete"
    /\ Len(store) = 2
    /\ Cardinality(Routes) = 6

-----------------------------------------------------------------------------
(* C15 *)

\* a document with its title, its description and a publication date
WellFormed(doc) ==
    /\ doc.title.given
    /\ doc.description.given
    /\ doc.pubDate.given
    /\ Len(doc.pubDate.value) = 3

\* C15: every loaded entry has a title, a description and a date; a document
\* without one of them ends the build and leaves no entry; the build goes on
\* only when every document is loaded.
C15_MalformedDocumentFailsLoad ==
    /\ \A i \in 1..Len(store) :
          /\ store[i].title # <<>>
          /\ store[i].description # <<>>
          /\ store[i].pubDate >= 0
    /\ (status = "loading" /\ pending # <<>> /\ ~WellFormed(Head(pending)))
          => ~ENABLED (LoadEntry /\ status' # "aborted")
    /\ status = "aborted" =>
          /\ pending # <<>>
          /\ ~WellFormed(Head(pending))
          /\ \A i \in 1..Len(store) : store[i].slug # Head(pending).file
    /\ status = "running" => pending = <<>>

\* the first document was loaded, the second has a date that is none
C15_Witness ==
    /\ status = "aborted"
    /\ Len(store) = 1
    /\ Head(pending).title.given
    /\ Head(pending).description.given
    /\ Head(pending).pubDate = Given(<<"soon">>)

-----------------------------------------------------------------------------
(* C16 *)

\* C16: at every step the collection holds the entries the loader returned,
\* each with the fields it was loaded with, and the paths carry those entries.
C16_EntriesUntouched ==
    /\ Len(store) = Len(loaded)
    /\ Elements(store) = Elements(loaded)
    /\ \A i \in 1..Len(postPaths) : postPaths[i].props \in Elements(loaded)
    /\ \A i \in 1..Len(ogPaths) : ogPaths[i].props.post \in Elements(loaded)

\* every listing handler has run and the sorts have reordered the array that
\* the framework holds
C16_Witness ==
    /\ aliased
    /\ store # loaded
    /\ {"index", "teaser", "feed", "feedUnfiltered"} \subseteq done

-----------------------------------------------------------------------------
(* C17 *)

-----------------------------------------------------------------------------
(* C18 *)

\* C18: every preview image, per-post or home, is requested 1200 wide and 600
\* high with exactly two fonts: the bold font file under the bold name and the
\* regular font file under the regular name.
C18_ImageSizeAndFonts ==
    \A k \in ImageKeys :
        images[k].state = "rendered" =>
            /\ images[k].options.width = 1200
            /\ images[k].options.height = 600
            /\ Len(images[k].options.fonts) = 2
            /\ { <<images[k].options.fonts[i].name, images[k].options.fonts[i].data>> :
                   i \in 1..2 }
                 = { <<"Geist Mono Bold", <<"bytes of", "GeistMono-Bold.ttf">> >>,
                     <<"Geist Mono Regular", <<"bytes of", "GeistMono-Regular.ttf">> >> }

\* the home image and a per-post image exist
C18_Witness ==
    /\ images["home"].state = "rendered"
    /\ \E slug \in Slugs : images[slug].state = "rendered"

-----------------------------------------------------------------------------
(* C20 *)

\* the code fences the highlighter cannot serve as written
Degrading == {"fence_unknown", "fence_bad_meta"}

-----------------------------------------------------------------------------
(* C21 *)

\* C21: a rendered post page has a table of contents if and only if the body
\* of its entry has a heading, and the table holds one link per heading, in
\* the order of the body, each to "#" and the slug of its heading.
C21_TableOfContents ==
    \A slug \in PostSlugs :
        pages[slug].state = "rendered" =>
            LET hs == SelectSeq(PostPropsOf(slug).body,
                                LAMBDA token : token \in HeadingTokens)
            IN  /\ pages[slug].toc.present <=> (Len(hs) > 0)
                /\ pages[slug].toc.links =
                       [i \in 1..Len(hs) |-> [fragment |-> <<"slug of", hs[i]>>]]

\* the page of a post with two headings and the page of a post with none
C21_Witness ==
    /\ pages["a"].state = "rendered"
    /\ Len(pages["a"].toc.links) = 2
    /\ pages["b"].state = "rendered"
    /\ ~pages["b"].toc.present

-----------------------------------------------------------------------------
(* C22 *)

\* C22: the preview image a rendered post page names in its metadata is the
\* path of the preview-image route of the same entry, once those routes are
\* generated; in a complete build the image of that route exists.
C22_PreviewImageExists ==
    \A slug \in PostSlugs :
        pages[slug].state = "rendered" =>
            LET target == Resolve(pages[slug].meta.image, PostPagePath(slug))
            IN  /\ "ogPaths" \in done =>
                      /\ [kind |-> "post-preview-image", path |-> target] \in Routes
                      /\ target = PreviewImagePath(slug)
                /\ status = "complete" => images[slug].state = "rendered"

\* a complete build with the page of an entry that has a static image
C22_Witness ==
    /\ status = "complete"
    /\ \E slug \in PostSlugs :
          /\ pages[slug].state = "rendered"
          /\ EntryOfSlug(slug).image # "none"

-----------------------------------------------------------------------------
(* C23 *)

\* the link leads, from the page that holds it, to the post page of the entry
\* with that title
LeadsToPostPage(link, base, title) ==
    LET target == Resolve(link, base)
    IN  /\ [kind |-> "post-page", path |-> target] \in Routes
        /\ \E i \in 1..Len(store) :
              /\ target = PostPagePath(store[i].slug)
              /\ store[i].title = title

\* C23: every link of the index listing, of the teaser (from the home page)
\* and of the feed items leads to the post-page route of the entry whose
\* title the item shows.
C23_LinksLeadToPostPages ==
    "postPaths" \in done =>
        /\ \A i \in 1..Len(indexListing) :
              LeadsToPostPage(indexListing[i].href, IndexPagePath,
                              indexListing[i].title)
        /\ \A i \in 1..Len(latestPosts) :
              LeadsToPostPage(latestPosts[i].href, HomePagePath,
                              latestPosts[i].title)
        /\ \A i \in 1..Len(feedItems) :
              LeadsToPostPage(feedItems[i].link, FeedDocumentPath,
                              feedItems[i].title)
        /\ \A i \in 1..Len(feedItemsUnfiltered) :
              LeadsToPostPage(feedItemsUnfiltered[i].link, FeedDocumentPath,
                              feedItemsUnfiltered[i].title)

\* the four listings are built and none is empty
C23_Witness ==
    /\ {"index", "teaser", "feed", "feedUnfiltered"} \subseteq done
    /\ Len(indexListing) >= 2
    /\ Len(latestPosts) >= 2
    /\ Len(feedItems) >= 1
    /\ Len(feedItemsUnfiltered) >= 2

-----------------------------------------------------------------------------
(* C24 *)

\* C24: the slugs of the index listing are the slugs of the feed items, in the
\* same order (for either revision of the RSS endpoint).
C24_IndexAndFeedAgree ==
    /\ {"index", "feed"} \subseteq done => IndexSlugs = FeedSlugs
    /\ {"index", "feedUnfiltered"} \subseteq done => IndexSlugs = FeedUnfilteredSlugs

-----------------------------------------------------------------------------
(* C25 *)

\* how often a slug occurs in a sequence of slugs
Occurrences(slugs, slug) == Cardinality({i \in 1..Len(slugs) : slugs[i] = slug})

ExactlyTheNonDrafts(slugs) ==
    /\ \A i \in 1..Len(store) :
          Occurrences(slugs, store[i].slug) = IF store[i].draft THEN 0 ELSE 1
    /\ \A i \in 1..Len(slugs) : slugs[i] \in LoadedSlugs

\* C25: every non-draft entry is exactly once in the index listing and
\* exactly once in the feed, and nothing else is in them.
C25_NeitherLostNorDuplicated ==
    /\ "index" \in done => ExactlyTheNonDrafts(IndexSlugs)
    /\ "feed" \in done => ExactlyTheNonDrafts(FeedSlugs)
    /\ "feedUnfiltered" \in done => ExactlyTheNonDrafts(FeedUnfilteredSlugs)

-----------------------------------------------------------------------------
(* C26 *)

\* C26: the paths of the post pages of two entries differ, the paths of their
\* preview images differ, and none of them is the path of the index page or
\* of the feed.
C26_PathsInjective ==
    /\ \A i, j \in 1..Len(postPaths) :
          i # j => PostPagePath(postPaths[i].params.slug)
                     # PostPagePath(postPaths[j].params.slug)
    /\ \A i, j \in 1..Len(ogPaths) :
          i # j => PreviewImagePath(ogPaths[i].params.slug)
                     # PreviewImagePath(ogPaths[j].params.slug)
    /\ \A i \in 1..Len(postPaths) :
          PostPagePath(postPaths[i].params.slug)
              \notin {IndexPagePath, FeedDocumentPath}
    /\ \A i \in 1..Len(ogPaths) :
          PreviewImagePath(ogPaths[i].params.slug)
              \notin {IndexPagePath, FeedDocumentPath}

\* the routes of two entries that differ in nothing but what their file names
\* give them
C26_Witness ==
    /\ RoutesDerived
    /\ \E i, j \in 1..Len(store) :
          /\ i # j
          /\ store[i].pubDate = store[j].pubDate
          /\ store[i].draft = store[j].draft
    /\ Len(postPaths) = Len(store)
    /\ Len(ogPaths) = Len(store)

-----------------------------------------------------------------------------
(* C27 *)

\* C27: the images of two entries with the same title and the same date have
\* the same element tree, whatever else the entries hold; the element tree of
\* the home image is the same in every build.
C27_ImageOfTitleAndDate ==
    /\ \A k1, k2 \in Slugs :
          ( /\ images[k1].state = "rendered"
            /\ images[k2].state = "rendered"
            /\ EntryOfSlug(k1).title = EntryOfSlug(k2).title
            /\ EntryOfSlug(k1).pubDate = EntryOfSlug(k2).pubDate )
              => images[k1].element = images[k2].element
    /\ images["home"].state = "rendered" =>
          images["home"].element =
              [ type       |-> "div",
                fontFamily |-> "Geist Mono Regular",
                children   |->
                  << [ type     |-> "div",
                       children |-> <<"hi there, i'm mario.">> ],
                     [ type |-> "div", children |-> <<"marioph.com">> ] >> ]

\* the images of two entries of the same title and date, one a draft and one
\* not, and the home image
C27_Witness ==
    /\ images["home"].state = "rendered"
    /\ \E k1, k2 \in Slugs :
          /\ k1 # k2
          /\ images[k1].state = "rendered"
          /\ images[k2].state = "rendered"
          /\ EntryOfSlug(k1).title = EntryOfSlug(k2).title
          /\ EntryOfSlug(k1).pubDate = EntryOfSlug(k2).pubDate
          /\ EntryOfSlug(k1).draft # EntryOfSlug(k2).draft
          /\ EntryOfSlug(k1).body # EntryOfSlug(k2).body

-----------------------------------------------------------------------------
(* C28 *)

\* C28: the index page, which passes no image, shows the default image
\* /og.png; a post page shows the image it passes, /blog/{slug}/og.png, and
\* never the default.
C28_DefaultImageWithoutImageProp ==
    /\ "index" \in done => indexMeta.image = AbsoluteLink(<<"og.png">>)
    /\ \A slug \in PostSlugs :
          pages[slug].state = "rendered" =>
              /\ pages[slug].meta.image # AbsoluteLink(<<"og.png">>)
              /\ pages[slug].meta.image = AbsoluteLink(<<"blog", slug, "og.png">>)

\* the index page and a post page are rendered
C28_Witness ==
    /\ "index" \in done
    /\ indexMeta.title = "blog"
    /\ \E slug \in PostSlugs : pages[slug].state = "rendered"

====
